---- MODULE Spec2Model ----
(***************************************************************************)
(* Model of the isochrone scripts SwimmingPoolIsochrones.py and            *)
(* FSDOIsochrones.py: the function get_isochrone_from_graph (nearest node, *)
(* edge-time annotation, time-bounded ego graph, convex hull), the script  *)
(* that applies it to every centroid for the 5, 10 and 20 minute budgets   *)
(* and clips the results, and the label-moving loop of the pool script.    *)
(*                                                                         *)
(* Line numbers are those of SwimmingPoolIsochrones.py; the function is the *)
(* same, line for line, at lines 21-34 of FSDOIsochrones.py.               *)
(*                                                                         *)
(* Numbers: lengths are multiples of 500 m and speeds are 3 or 6 km/h, so  *)
(* every traversal time length / (speed * 1000 / 60) is a whole number of  *)
(* minutes and the float arithmetic of the code is exact on these inputs.  *)
(* Geometry lives on an integer grid: a geometry is known by its vertices  *)
(* and by the set of grid points it covers.                                *)
(***************************************************************************)
EXTENDS Integers, Sequences, FiniteSets, TLC

VARIABLES
    G,          \* the shared street graph: nodes, coordinates, edges with attributes
    G0,         \* the graph as it was when the call(s) started
    q,          \* q[w]: the frame of call w of get_isochrone_from_graph
    script,     \* the module-level state of the script (pools_gdf, nyc_gdf, position)
    labels      \* ax.texts, fig.texts and the loop state of the label-moving loop

vars == <<G, G0, q, script, labels>>

(***************************** bounds **************************************)
MaxEdges == 3
MaxPoints == 2
MaxLabels == 12

(***************************** values **************************************)
\* An edge without a 'time' attribute (a graph fresh from osmnx has none).
NoTime == -1
\* A coordinate that is not a number (the centroid of a record without geometry).
NaN == -9
\* What get_nearest_node yields for a NaN point: a value that is no node of G.
NoNode == 0
\* speed=3 and walk_time=10, the parameter defaults of get_isochrone_from_graph.
DefaultSpeed == 3
DefaultWalkTime == 10
\* The call passes no speed argument / no walk_time argument.
NoArg == -2

Lengths == {0, 500, 1000}
SpeedArgs == {NoArg, 6}
WalkTimeArgs == {NoArg, 0, 5, 20}
Grid == (0 .. 2) \X (0 .. 2)

Min(S) == CHOOSE m \in S : \A o \in S : m <= o

(************************** the graph G ************************************)
\* G.nodes: node ids in insertion order; G.x, G.y: the node attributes;
\* G.edges: the edges in the order G.edges(data=True, keys=True) yields them.
XOf(g, n) == g.x[n]
YOf(g, n) == g.y[n]

NodeSet(g) == {g.nodes[i] : i \in 1 .. Len(g.nodes)}

\* The key k of a multigraph edge: the number of earlier parallel edges.
KeyOf(el, i) == Cardinality({j \in 1 .. (i - 1) : el[j][1] = el[i][1] /\ el[j][2] = el[i][2]})

MkGraph(nodes, xy, el) ==
    [nodes |-> nodes,
     x |-> [n \in DOMAIN xy |-> xy[n][1]],
     y |-> [n \in DOMAIN xy |-> xy[n][2]],
     edges |-> [i \in 1 .. Len(el) |->
                  [u |-> el[i][1], v |-> el[i][2], k |-> KeyOf(el, i),
                   length |-> el[i][3], time |-> NoTime]]]

(********************* get_isochrone_from_graph ****************************)
\* line 23: center_node = ox.get_nearest_node(G, (y, x)).  osmnx computes the
\* distance from the point to every node, in G.nodes order, and returns
\* dists.idxmin(): the first node of that order at the minimum distance.
Dist2(ax, ay, bx, by) == (ax - bx) * (ax - bx) + (ay - by) * (ay - by)

idxmin(dists) ==
    CHOOSE i \in DOMAIN dists :
        /\ \A j \in DOMAIN dists : dists[i] <= dists[j]
        /\ \A j \in DOMAIN dists : j < i => dists[j] > dists[i]

get_nearest_node(g, y, x) ==
    IF x = NaN \/ y = NaN
    THEN NoNode
    ELSE LET dists == [i \in 1 .. Len(g.nodes) |->
                          Dist2(XOf(g, g.nodes[i]), YOf(g, g.nodes[i]), x, y)]
         IN g.nodes[idxmin(dists)]

\* line 17: the value of the speed parameter for a call.
SpeedOf(speed_arg) == IF speed_arg = NoArg THEN DefaultSpeed ELSE speed_arg
WalkTimeOf(walk_time_arg) == IF walk_time_arg = NoArg THEN DefaultWalkTime ELSE walk_time_arg

\* The conversion without its "/ 60": metres per hour.
MetersPerHour(speed) == speed * 1000

\* line 24: meters_per_minute = speed * 1000 / 60
MetersPerMinute(speed) == (speed * 1000) \div 60

\* line 26: data['time'] = data['length'] / meters_per_minute
TimeOf(length, meters_per_minute) == length \div meters_per_minute

\* lines 25-26, one iteration: the edge at position i gets its 'time'.
AnnotateEdgeAt(g, i, meters_per_minute) ==
    [g EXCEPT !.edges[i].time = TimeOf(g.edges[i].length, meters_per_minute)]

\* lines 25-26, the whole loop.
RECURSIVE AnnotateFrom(_, _, _)
AnnotateFrom(g, i, meters_per_minute) ==
    IF i > Len(g.edges) THEN g
    ELSE AnnotateFrom(AnnotateEdgeAt(g, i, meters_per_minute), i + 1, meters_per_minute)

\* networkx's weight function for a multigraph: the minimum over the parallel
\* edges of attr.get('time', 1).
AttrTime(e) == IF e.time = NoTime THEN 1 ELSE e.time

weight(g, v, u) ==
    Min({AttrTime(g.edges[i]) : i \in {j \in DOMAIN g.edges : g.edges[j].u = v /\ g.edges[j].v = u}})

\* G_succ[v]: the successors of v, in the order their first edge appears.
RECURSIVE SuccFrom(_, _, _, _)
SuccFrom(g, v, i, acc) ==
    IF i > Len(g.edges) THEN acc
    ELSE LET e == g.edges[i]
             seen == {acc[j] : j \in 1 .. Len(acc)}
         IN SuccFrom(g, v, i + 1,
                     IF e.u = v /\ e.v \notin seen THEN Append(acc, e.v) ELSE acc)

Succ(g, v) == SuccFrom(g, v, 1, <<>>)

\* "if cutoff is not None: if vu_dist > cutoff: continue"
BeyondCutoff(vu_dist, cutoff) == vu_dist > cutoff

\* heappop: the fringe entry (d, c, v) with the least d, then the least counter c.
PopMin(fringe) ==
    CHOOSE t \in fringe :
        \A o \in fringe : t[1] < o[1] \/ (t[1] = o[1] /\ t[2] <= o[2])

\* The inner loop of _dijkstra_multisource over the successors of v.
RECURSIVE Relax(_, _, _, _, _, _, _, _)
Relax(g, cutoff, v, succ, dist, seen, fringe, c) ==
    IF succ = <<>> THEN [seen |-> seen, fringe |-> fringe, c |-> c]
    ELSE LET u == Head(succ)
             vu_dist == dist[v] + weight(g, v, u)
         IN IF BeyondCutoff(vu_dist, cutoff)
            THEN Relax(g, cutoff, v, Tail(succ), dist, seen, fringe, c)
            ELSE IF u \in DOMAIN dist
            THEN Relax(g, cutoff, v, Tail(succ), dist, seen, fringe, c)
            ELSE IF u \notin DOMAIN seen \/ vu_dist < seen[u]
            THEN Relax(g, cutoff, v, Tail(succ), dist,
                       (u :> vu_dist) @@ seen,
                       fringe \cup {<<vu_dist, c + 1, u>>}, c + 1)
            ELSE Relax(g, cutoff, v, Tail(succ), dist, seen, fringe, c)

\* The outer loop of _dijkstra_multisource: pop, settle, relax.
RECURSIVE Dijkstra(_, _, _, _, _, _)
Dijkstra(g, cutoff, dist, seen, fringe, c) ==
    IF fringe = {} THEN dist
    ELSE LET top == PopMin(fringe)
             rest == fringe \ {top}
             v == top[3]
         IN IF v \in DOMAIN dist
            THEN Dijkstra(g, cutoff, dist, seen, rest, c)
            ELSE LET dist1 == (v :> top[1]) @@ dist
                     r == Relax(g, cutoff, v, Succ(g, v), dist1, seen, rest, c)
                 IN Dijkstra(g, cutoff, dist1, r.seen, r.fringe, r.c)

\* single_source_dijkstra(G, n, cutoff=radius, weight='time'): node -> distance.
single_source_dijkstra(g, n, cutoff) ==
    Dijkstra(g, cutoff, <<>>, (n :> 0), {<<0, 1, n>>}, 1)

\* nx.ego_graph without distance=: hop counts instead of times.
RECURSIVE HopBall(_, _, _)
HopBall(g, S, radius) ==
    IF radius = 0 THEN S
    ELSE HopBall(g, S \cup {g.edges[i].v : i \in {j \in DOMAIN g.edges : g.edges[j].u \in S}},
                 radius - 1)

ego_graph_hops(g, n, radius) == HopBall(g, {n}, radius)

\* line 27: nx.ego_graph(G, center_node, radius=walk_time, distance='time'):
\* the nodes of the subgraph.
ego_graph(g, n, radius) == DOMAIN single_source_dijkstra(g, n, radius)

\* ego_graph raises NodeNotFound when center_node is not a node of G.
EgoRaises(g, n) == n \notin NodeSet(g)

(***************************** convex hull *********************************)
Cross(o, a, b) == (a[1] - o[1]) * (b[2] - o[2]) - (a[2] - o[2]) * (b[1] - o[1])

LexLeq(a, b) == a[1] < b[1] \/ (a[1] = b[1] /\ a[2] <= b[2])
LexMin(P) == CHOOSE p \in P : \A r \in P : LexLeq(p, r)
LexMax(P) == CHOOSE p \in P : \A r \in P : LexLeq(r, p)

Collinear(P) == \A a \in P : \A b \in P : \A c \in P : Cross(a, b, c) = 0

\* The next hull vertex after cur, counter-clockwise: every other point lies
\* to the left of cur -> p, or on it and no farther than p.
NextVertex(P, cur) ==
    CHOOSE p \in P \ {cur} :
        \A r \in P \ {cur, p} :
            \/ Cross(cur, p, r) > 0
            \/ (Cross(cur, p, r) = 0 /\ Dist2(cur[1], cur[2], r[1], r[2])
                                        < Dist2(cur[1], cur[2], p[1], p[2]))

RECURSIVE Wrap(_, _, _, _)
Wrap(P, start, cur, ring) ==
    LET nxt == NextVertex(P, cur)
    IN IF nxt = start THEN ring ELSE Wrap(P, start, nxt, Append(ring, nxt))

\* unary_union.convex_hull of a set of points: an empty collection, a Point,
\* a LineString (collinear points) or a Polygon (its ring, counter-clockwise).
convex_hull(P) ==
    IF P = {} THEN [type |-> "GeometryCollection", coords |-> <<>>]
    ELSE IF Cardinality(P) = 1 THEN [type |-> "Point", coords |-> <<LexMin(P)>>]
    ELSE IF Collinear(P) THEN [type |-> "LineString", coords |-> <<LexMin(P), LexMax(P)>>]
    ELSE [type |-> "Polygon", coords |-> Wrap(P, LexMin(P), LexMin(P), <<LexMin(P)>>)]

\* line 28: node_points = [Point(data['x'], data['y']) for node, data in subgraph.nodes(data=True)]
node_points_all(g, subgraph) == {<<XOf(g, n), YOf(g, n)>> : n \in NodeSet(g)}

node_points(g, subgraph) == {<<XOf(g, n), YOf(g, n)>> : n \in subgraph}

NoPolys == [type |-> "None", coords |-> <<>>]

\* p lies inside or on the geometry.
OnSegment(a, b, p) ==
    /\ Cross(a, b, p) = 0
    /\ (p[1] - a[1]) * (p[1] - b[1]) <= 0
    /\ (p[2] - a[2]) * (p[2] - b[2]) <= 0

RingNext(ring, i) == ring[(i % Len(ring)) + 1]

Covers(polys, p) ==
    CASE polys.type = "Point" -> p = polys.coords[1]
      [] polys.type = "LineString" -> OnSegment(polys.coords[1], polys.coords[2], p)
      [] polys.type = "Polygon" ->
            \A i \in 1 .. Len(polys.coords) : Cross(polys.coords[i], RingNext(polys.coords, i), p) >= 0
      [] OTHER -> FALSE

\* The grid points a geometry covers.
Covered(polys) == {p \in Grid : Covers(polys, p)}

(********************** one call, step by step *****************************)
Frame(x, y, walk_time_arg, speed_arg) ==
    [pc |-> "line23", x |-> x, y |-> y,
     walk_time_arg |-> walk_time_arg, walk_time |-> WalkTimeOf(walk_time_arg),
     speed_arg |-> speed_arg, speed |-> SpeedOf(speed_arg),
     center_node |-> NoNode, meters_per_minute |-> 0, it |-> 0,
     subgraph |-> {}, polys |-> NoPolys]

\* lines 23-24
NearestNode(w) ==
    /\ q[w].pc = "line23"
    /\ q' = [q EXCEPT ![w].center_node = get_nearest_node(G, q[w].y, q[w].x),
                      ![w].meters_per_minute = MetersPerMinute(q[w].speed),
                      ![w].it = 1,
                      ![w].pc = "line25"]
    /\ UNCHANGED <<G, G0, script, labels>>

\* lines 25-26: one iteration of the for loop over G.edges
AnnotateEdge(w) ==
    /\ q[w].pc = "line25"
    /\ q[w].it <= Len(G.edges)
    /\ G' = AnnotateEdgeAt(G, q[w].it, q[w].meters_per_minute)
    /\ q' = [q EXCEPT ![w].it = @ + 1]
    /\ UNCHANGED <<G0, script, labels>>

\* line 27, after the loop has run out of edges
EgoGraph(w) ==
    /\ q[w].pc = "line25"
    /\ q[w].it > Len(G.edges)
    /\ ~EgoRaises(G, q[w].center_node)
    /\ q' = [q EXCEPT ![w].subgraph = ego_graph(G, q[w].center_node, q[w].walk_time),
                      ![w].pc = "line28"]
    /\ UNCHANGED <<G, G0, script, labels>>

\* line 27 when center_node is no node of G: the call raises
EgoGraphRaises(w) ==
    /\ q[w].pc = "line25"
    /\ q[w].it > Len(G.edges)
    /\ EgoRaises(G, q[w].center_node)
    /\ q' = [q EXCEPT ![w].pc = "raised"]
    /\ UNCHANGED <<G, G0, script, labels>>

\* lines 28-30
ReturnPolys(w) ==
    /\ q[w].pc = "line28"
    /\ q' = [q EXCEPT ![w].polys = convex_hull(node_points(G, q[w].subgraph)),
                      ![w].pc = "returned"]
    /\ UNCHANGED <<G, G0, script, labels>>

StepCall(w) ==
    \/ NearestNode(w)
    \/ AnnotateEdge(w)
    \/ EgoGraph(w)
    \/ EgoGraphRaises(w)
    \/ ReturnPolys(w)

(****************************** the inputs *********************************)
\* Edge lists over the node set N: at most MaxEdges directed edges, listed in
\* G.edges order (by u, then v), parallel edges allowed.
EdgeTypes(N) == {<<u, v, l>> : u \in N, v \in N, l \in Lengths} \ {<<n, n, l>> : n \in N, l \in Lengths}

EdgeOrdered(el) ==
    \A i \in 1 .. (Len(el) - 1) : el[i][1] * 10 + el[i][2] <= el[i + 1][1] * 10 + el[i + 1][2]

EdgeLists(N) ==
    UNION {{el \in [1 .. n -> EdgeTypes(N)] : EdgeOrdered(el)} : n \in 0 .. MaxEdges}

\* Three nodes at fixed places, every edge list: the graphs for reachability.
ReachXY == (1 :> <<0, 0>>) @@ (2 :> <<2, 0>>) @@ (3 :> <<0, 2>>)
ReachGraphs == {MkGraph(<<1, 2, 3>>, ReachXY, el) : el \in EdgeLists({1, 2, 3})}
ReachPoints == {ReachXY[n] : n \in {1, 2, 3}} \cup {<<NaN, NaN>>}

\* The script and the label loop stand still while the function alone runs.
NoScript == [pc |-> "unused"]
NoLabels == [pc |-> "unused"]

Init ==
    /\ G \in ReachGraphs
    /\ G0 = G
    /\ \E p \in ReachPoints, wt \in WalkTimeArgs, sp \in SpeedArgs :
           q = [w \in {1} |-> Frame(p[1], p[2], wt, sp)]
    /\ script = NoScript
    /\ labels = NoLabels

Next == StepCall(1)

\* One call of get_isochrone_from_graph on a fresh graph.
Spec == Init /\ [][Next]_vars

\* Four nodes on the grid, numbered in scan order of their places and inserted
\* in ascending or in descending order of id, joined in a cycle
\* 1 -> 2 -> 3 -> 4 -> 1: the graphs for the nearest node and the hull.
Place(p) == p[1] * 3 + p[2]
GeomLayouts == {xy \in [1 .. 4 -> Grid] : \A i \in 1 .. 3 : Place(xy[i]) <= Place(xy[i + 1])}
GeomEdgesAscending == <<<<1, 2, 500>>, <<2, 3, 500>>, <<3, 4, 0>>, <<4, 1, 500>>>>
GeomEdgesDescending == <<<<4, 1, 500>>, <<3, 4, 0>>, <<2, 3, 500>>, <<1, 2, 500>>>>
GeomGraphs ==
    {MkGraph(<<1, 2, 3, 4>>, xy, GeomEdgesAscending) : xy \in GeomLayouts}
    \cup {MkGraph(<<4, 3, 2, 1>>, xy, GeomEdgesDescending) : xy \in GeomLayouts}

InitGeom ==
    /\ G \in GeomGraphs
    /\ G0 = G
    /\ \E p \in Grid \cup {<<NaN, NaN>>}, wt \in {NoArg, 0, 20} :
           q = [w \in {1} |-> Frame(p[1], p[2], wt, NoArg)]
    /\ script = NoScript
    /\ labels = NoLabels

\* One call of get_isochrone_from_graph, over node layouts.
SpecGeom == InitGeom /\ [][Next]_vars

\* Two calls on the same graph with different speeds, their steps interleaved.
InitInterleaved ==
    /\ G \in {g \in ReachGraphs : Len(g.edges) < MaxEdges}
    /\ G0 = G
    /\ \E p \in ReachPoints, wt \in WalkTimeArgs, sp \in {3, 6} :
           q = [w \in {1, 2} |-> Frame(p[1], p[2], wt, IF w = 1 THEN sp ELSE 9 - sp)]
    /\ script = NoScript
    /\ labels = NoLabels

NextInterleaved == \E w \in {1, 2} : StepCall(w)

SpecInterleaved == InitInterleaved /\ [][NextInterleaved]_vars

(***************************** the script **********************************)
\* One whole call get_isochrone_from_graph(G, x, y, walk_time=..., speed=...):
\* the graph it leaves, and its result or the fact that it raised.
Call(g, x, y, walk_time_arg, speed_arg) ==
    LET center_node == get_nearest_node(g, y, x)
        g1 == AnnotateFrom(g, 1, MetersPerMinute(SpeedOf(speed_arg)))
    IN IF EgoRaises(g1, center_node)
       THEN [raised |-> TRUE, G |-> g1, polys |-> NoPolys]
       ELSE [raised |-> FALSE, G |-> g1,
             polys |-> convex_hull(node_points(g1,
                           ego_graph(g1, center_node, WalkTimeOf(walk_time_arg))))]

\* pools_gdf['centroids'].apply(lambda coor: get_isochrone_from_graph(G, coor.x,
\* coor.y, walk_time=...)): row after row; an exception ends the apply.
RECURSIVE ApplyFrom(_, _, _, _, _)
ApplyFrom(g, centroids, walk_time_arg, i, acc) ==
    IF i > Len(centroids) THEN [raised |-> FALSE, G |-> g, column |-> acc]
    ELSE LET r == Call(g, centroids[i][1], centroids[i][2], walk_time_arg, NoArg)
         IN IF r.raised THEN [raised |-> TRUE, G |-> r.G, column |-> <<>>]
            ELSE ApplyFrom(r.G, centroids, walk_time_arg, i + 1, Append(acc, r.polys))

\* lines 72-74: one column of isochrones; an uncaught exception ends the script.
ApplyColumn(at, col, walk_time_arg, then) ==
    /\ script.pc = at
    /\ LET r == ApplyFrom(G, script.centroids, walk_time_arg, 1, <<>>)
       IN /\ G' = r.G
          /\ script' = IF r.raised
                       THEN [script EXCEPT !.pc = "raised"]
                       ELSE [script EXCEPT !.pc = then, ![col] = r.column]
    /\ UNCHANGED <<G0, q, labels>>

ApplyFive == ApplyColumn("line72", "five_min_isochrones", 5, "line73")
ApplyTen == ApplyColumn("line73", "ten_min_isochrones", 10, "line74")
ApplyTwenty == ApplyColumn("line74", "twenty_min_isochrones", 20, "line85")

\* A row without a value after the assignment of a shorter series.
Missing == [type |-> "NaN", cells |-> {}]

\* gpd.clip(series, nyc_gdf): the rows that intersect the mask, each cut to it,
\* under their own index; the other rows are not in the result.
clip(column, mask) ==
    LET hit == {i \in 1 .. Len(column) : Covered(column[i]) \cap mask # {}}
    IN [i \in hit |-> [type |-> "Clipped", cells |-> Covered(column[i]) \cap mask]]

\* The clipped rows written one after the other, whatever their index.
assign_by_position(n, series) ==
    LET rank(i) == Cardinality({j \in DOMAIN series : j <= i})
        at(k) == CHOOSE i \in DOMAIN series : rank(i) = k
    IN [i \in 1 .. n |-> IF i <= Cardinality(DOMAIN series) THEN series[at(i)] ELSE Missing]

\* pools_gdf[col] = series: aligned on the index, rows the series lacks get NaN.
assign_column(n, series) ==
    [i \in 1 .. n |-> IF i \in DOMAIN series THEN series[i] ELSE Missing]

\* lines 85-87
ClipColumn(at, col, then) ==
    /\ script.pc = at
    /\ script' = [script EXCEPT !.pc = then,
                                ![col] = assign_column(Len(script.centroids),
                                                       clip(script[col], script.nyc_gdf))]
    /\ UNCHANGED <<G, G0, q, labels>>

ClipFive == ClipColumn("line85", "five_min_isochrones", "line86")
ClipTen == ClipColumn("line86", "ten_min_isochrones", "line87")
ClipTwenty == ClipColumn("line87", "twenty_min_isochrones", "line88")

\* The graphs, centroids and base maps the script runs on.
ScriptGraphs == {g \in ReachGraphs : Len(g.edges) <= 2}
Centroids == UNION {[1 .. n -> ReachPoints] : n \in 0 .. MaxPoints}
BaseMaps == {{p \in Grid : p[1] <= a /\ p[2] <= b} : a \in 0 .. 2, b \in 0 .. 2}

NoCalls == <<>>

InitScript ==
    /\ G \in ScriptGraphs
    /\ G0 = G
    /\ q = NoCalls
    /\ \E c \in Centroids, m \in BaseMaps :
           script = [pc |-> "line72", centroids |-> c, nyc_gdf |-> m,
                     five_min_isochrones |-> <<>>, ten_min_isochrones |-> <<>>,
                     twenty_min_isochrones |-> <<>>]
    /\ labels = NoLabels

NextScript ==
    \/ ApplyFive
    \/ ApplyTen
    \/ ApplyTwenty
    \/ ClipFive
    \/ ClipTen
    \/ ClipTwenty

\* The script from the isochrones (line 72) to the end of the clipping (line 87).
SpecScript == InitScript /\ [][NextScript]_vars

(************************ the label-moving loop ****************************)
\* line 97: ax.text(...) puts the title (text 0) into ax.texts.
AddTitle ==
    /\ labels.pc = "line97"
    /\ labels' = [labels EXCEPT !.ax_texts = Append(@, 0), !.pc = "line108"]
    /\ UNCHANGED <<G, G0, q, script>>

\* lines 108-109: one ax.annotate per row puts label 1, 2, ... into ax.texts.
Annotate ==
    /\ labels.pc = "line108"
    /\ labels.row < labels.rows
    /\ labels' = [labels EXCEPT !.ax_texts = Append(@, labels.row + 1), !.row = @ + 1]
    /\ UNCHANGED <<G, G0, q, script>>

\* line 112: i = 0, and the for loop of line 113 takes its iterator.
StartLoop ==
    /\ labels.pc = "line108"
    /\ labels.row = labels.rows
    /\ labels' = [labels EXCEPT !.i = 0, !.it = 0, !.pc = "line113"]
    /\ UNCHANGED <<G, G0, q, script>>

\* list.pop(i) on a 1-based sequence holding the list.
Pop(texts, i) == [k \in 1 .. (Len(texts) - 1) |-> IF k <= i THEN texts[k] ELSE texts[k + 1]]

\* lines 113-115: the list iterator yields an item while its position is
\* below the current length of ax.texts; the body pops index i and counts on.
MoveLabel ==
    /\ labels.pc = "line113"
    /\ labels.it < Len(labels.ax_texts)
    /\ labels' = IF labels.i < Len(labels.ax_texts)
                 THEN [labels EXCEPT !.fig_texts = Append(@, labels.ax_texts[labels.i + 1]),
                                     !.ax_texts = Pop(@, labels.i),
                                     !.i = @ + 1, !.it = @ + 1]
                 ELSE [labels EXCEPT !.pc = "raised"]
    /\ UNCHANGED <<G, G0, q, script>>

\* line 113, the iterator is exhausted: on to line 117.
EndLoop ==
    /\ labels.pc = "line113"
    /\ labels.it >= Len(labels.ax_texts)
    /\ labels' = [labels EXCEPT !.pc = "line117"]
    /\ UNCHANGED <<G, G0, q, script>>

NoGraph == [nodes |-> <<>>]

InitLabels ==
    /\ G = NoGraph
    /\ G0 = NoGraph
    /\ q = NoCalls
    /\ script = NoScript
    /\ \E n \in 0 .. MaxLabels :
           labels = [pc |-> "line97", rows |-> n, row |-> 0, ax_texts |-> <<>>,
                     fig_texts |-> <<>>, i |-> 0, it |-> 0]

NextLabels ==
    \/ AddTitle
    \/ Annotate
    \/ StartLoop
    \/ MoveLabel
    \/ EndLoop

\* Lines 97 to 115 of the pool script, for 0 to MaxLabels pools.
SpecLabels == InitLabels /\ [][NextLabels]_vars

(******************************* claims ************************************)
Calls == DOMAIN q
AfterEgo(w) == q[w].pc \in {"line28", "returned"}

\* What a call computes when it runs alone on the graph as it was.
AloneSubgraph(w) ==
    ego_graph(AnnotateFrom(G0, 1, MetersPerMinute(q[w].speed)), q[w].center_node, q[w].walk_time)

\* C1: two interleaved calls with different speeds each compute the node set
\* they compute alone; none uses edge times derived from the other's speed.
C1_InterleavedCallsIndependent ==
    \A w \in Calls : AfterEgo(w) => q[w].subgraph = AloneSubgraph(w)

\* Chains of edges of G leaving s: sequences of distinct edge positions, each
\* edge starting where the one before ends.
Chains(g, s) ==
    UNION {{p \in [1 .. n -> DOMAIN g.edges] :
                /\ g.edges[p[1]].u = s
                /\ \A i \in 1 .. (n - 1) : g.edges[p[i]].v = g.edges[p[i + 1]].u
                /\ \A i \in 1 .. n : \A j \in 1 .. n : i # j => p[i] # p[j]}
           : n \in 1 .. Len(g.edges)}

RECURSIVE ChainLength(_, _, _)
ChainLength(g, p, i) == IF i > Len(p) THEN 0 ELSE g.edges[p[i]].length + ChainLength(g, p, i + 1)

\* sum(length / (speed * 1000 / 60)) <= budget, in whole numbers.
ChainWithin(g, p, speed, budget) == ChainLength(g, p, 1) * 60 <= budget * speed * 1000

WithinBudget(g, s, speed, budget) ==
    {s} \cup {g.edges[p[Len(p)]].v : p \in {c \in Chains(g, s) : ChainWithin(g, c, speed, budget)}}

\* C2: the node set of the reachability step is exactly the set of nodes with
\* a path from the source of cumulative traversal time <= budget.
C2_ReachableIsWithinBudget ==
    \A w \in Calls :
        AfterEgo(w) => q[w].subgraph = WithinBudget(G, q[w].center_node, q[w].speed, q[w].walk_time)

\* C2's case: parallel edges of different lengths leave the source, one within
\* the budget; a second hop is within the budget and a third node is not.
C2_Witness ==
    /\ q[1].pc = "returned"
    /\ Cardinality(q[1].subgraph) = 2
    /\ \E i \in DOMAIN G.edges : \E j \in DOMAIN G.edges :
           /\ G.edges[i].u = q[1].center_node /\ G.edges[j].u = q[1].center_node
           /\ G.edges[i].v = G.edges[j].v
           /\ G.edges[i].time > q[1].walk_time /\ G.edges[j].time <= q[1].walk_time
    /\ \E i \in DOMAIN G.edges :
           G.edges[i].u \in q[1].subgraph /\ G.edges[i].v \notin q[1].subgraph

\* The nodes joined to s by zero-length edges only.
RECURSIVE ZeroClosure(_, _)
ZeroClosure(g, S) ==
    LET T == S \cup {g.edges[i].v : i \in {j \in DOMAIN g.edges :
                                              g.edges[j].u \in S /\ g.edges[j].length = 0}}
    IN IF T = S THEN S ELSE ZeroClosure(g, T)

\* C3 as stated: with budget 0 the reachable set is exactly the source, also
\* in graphs with zero-length edges.
C3_BudgetZeroOnlySource ==
    \A w \in Calls :
        (AfterEgo(w) /\ q[w].walk_time = 0) => q[w].subgraph = {q[w].center_node}

\* C3 amended: with budget 0 the reachable set is the source and the nodes
\* joined to it by zero-length edges only; it is exactly the source when no
\* zero-length edge leaves the source.
C3_BudgetZeroIsZeroClosure ==
    \A w \in Calls :
        (AfterEgo(w) /\ q[w].walk_time = 0) =>
            /\ q[w].subgraph = ZeroClosure(G, {q[w].center_node})
            /\ (\A i \in DOMAIN G.edges :
                    G.edges[i].u = q[w].center_node => G.edges[i].length > 0)
                => q[w].subgraph = {q[w].center_node}

\* C3's case: budget 0, a zero-length edge leaves the source and another edge
\* of positive length leads out of the reachable set.
C3_Witness ==
    /\ q[1].pc = "returned" /\ q[1].walk_time = 0
    /\ Cardinality(q[1].subgraph) = 2
    /\ \E i \in DOMAIN G.edges :
           G.edges[i].u \in q[1].subgraph /\ G.edges[i].v \notin q[1].subgraph

\* C8: without a speed argument every edge gets time = length / 75.
C8_DefaultSpeedIs75 ==
    \A w \in Calls :
        (AfterEgo(w) /\ q[w].speed_arg = NoArg) =>
            \A i \in DOMAIN G.edges : G.edges[i].time * 75 = G.edges[i].length

\* C9: a call leaves G unchanged: nodes, edges and every edge attribute.
C9_GraphUnchanged ==
    \A w \in Calls : q[w].pc = "returned" => G = G0

\* C5: the centre node is at the least distance from the point, and among the
\* nodes at that distance it is the one with the lowest id.
C5_NearestLowestId ==
    \A w \in Calls :
        (q[w].pc # "line23" /\ q[w].x # NaN) =>
            LET d(n) == Dist2(XOf(G, n), YOf(G, n), q[w].x, q[w].y)
                c == q[w].center_node
            IN /\ c \in NodeSet(G)
               /\ \A n \in NodeSet(G) : d(c) <= d(n)
               /\ \A n \in NodeSet(G) : d(n) = d(c) => c <= n

\* A polygon's ring turns left at every vertex.
StrictlyConvex(ring) ==
    /\ Len(ring) >= 3
    /\ \A i \in 1 .. Len(ring) : Cross(ring[i], RingNext(ring, i), RingNext(ring, i + 1)) > 0

\* C6: the returned geometry is the convex hull of the reachable nodes'
\* coordinates: its vertices are coordinates of reachable nodes, it covers
\* every reachable node, a polygon is convex, and 1 or 2 distinct coordinates
\* give a point or a line, not an error.
C6_HullOfReachable ==
    \A w \in Calls :
        q[w].pc = "returned" =>
            LET P == {<<XOf(G, n), YOf(G, n)>> : n \in q[w].subgraph}
                V == {q[w].polys.coords[i] : i \in 1 .. Len(q[w].polys.coords)}
            IN /\ V # {} /\ V \subseteq P
               /\ Cardinality(V) = Len(q[w].polys.coords)
               /\ \A p \in P : Covers(q[w].polys, p)
               /\ q[w].polys.type = "Polygon" => StrictlyConvex(q[w].polys.coords)
               /\ Cardinality(P) = 1 <=> q[w].polys.type = "Point"
               /\ Cardinality(P) = 2 => q[w].polys.type = "LineString"
               /\ q[w].polys.type \in {"Point", "LineString", "Polygon"}

\* C6's case: four reachable nodes, three at the corners of a triangle and
\* one strictly inside it.
C6_Witness ==
    /\ q[1].pc = "returned"
    /\ q[1].polys.type = "Polygon"
    /\ Cardinality(q[1].subgraph) = 4
    /\ Len(q[1].polys.coords) = 3
    /\ \E n \in q[1].subgraph :
           \A i \in 1 .. 3 :
               Cross(q[1].polys.coords[i], RingNext(q[1].polys.coords, i),
                     <<XOf(G, n), YOf(G, n)>>) > 0

BudgetOf(col) ==
    CASE col = "five_min_isochrones" -> 5
      [] col = "ten_min_isochrones" -> 10
      [] col = "twenty_min_isochrones" -> 20

Columns == {"five_min_isochrones", "ten_min_isochrones", "twenty_min_isochrones"}
Rows == 1 .. Len(script.centroids)

\* The call for row i and column col, on its own.
Task(i, col) == Call(G, script.centroids[i][1], script.centroids[i][2], BudgetOf(col), NoArg)

\* C4: when the call of one (point, budget) task raises, every task that does
\* not raise still has its isochrone recorded when the script ends.
C4_FailureAbortsOnlyItsTask ==
    script.pc \in {"raised", "line88"} =>
        \A col \in Columns : \A i \in Rows :
            ~Task(i, col).raised => (Len(script[col]) >= i /\ script[col][i].type # "None")

\* C7: after the clipping every (point, budget) has exactly one entry under its
\* own key: its hull cut to the base map when they intersect, the empty marker
\* when they do not.
C7_OneEntryPerPointAndBudget ==
    script.pc = "line88" =>
        \A col \in Columns :
            /\ DOMAIN script[col] = Rows
            /\ \A i \in Rows :
                   LET cells == Covered(Task(i, col).polys) \cap script.nyc_gdf
                   IN script[col][i] = IF cells # {}
                                       THEN [type |-> "Clipped", cells |-> cells]
                                       ELSE Missing

\* C7's case: after the clipping a hull outside the base map has the marker and
\* a later row of the same column has its cut hull.
C7_Witness ==
    /\ script.pc = "line88"
    /\ \E col \in Columns : \E i \in Rows : \E j \in Rows :
           /\ i < j
           /\ script[col][i] = Missing
           /\ script[col][j].type = "Clipped"
           /\ Cardinality(script[col][j].cells) >= 2

\* C10: when the loop ends ax.texts is empty, fig.texts holds every text
\* exactly once, and no pop was out of range.
C10_AllLabelsMoved ==
    labels.pc \in {"line117", "raised"} =>
        /\ labels.pc # "raised"
        /\ labels.ax_texts = <<>>
        /\ Len(labels.fig_texts) = labels.rows + 1
        /\ \A t \in 0 .. labels.rows :
               Cardinality({k \in 1 .. Len(labels.fig_texts) : labels.fig_texts[k] = t}) = 1

====
